---- MODULE Spec2Model ----
(***************************************************************************)
(* Inventory reconciliation (package main: leerInventario,                 *)
(* leerTransacciones, procesarTransacciones, escribirInventario,           *)
(* generarReporteBajoStock, escribirLog, main).                            *)
(*                                                                         *)
(* Spec      : procesarTransacciones from its entry, over every catalog    *)
(*             and transaction slice of the bounded input sets.            *)
(* SpecMain  : the whole of main(), readers and writers included.          *)
(***************************************************************************)
EXTENDS Integers, Sequences, FiniteSets

VARIABLES
    pc,              \* position of main / procesarTransacciones
    productos,       \* []Producto (shared backing array, mutated in place)
    transacciones,   \* []Transaccion
    index,           \* map[string]int of procesarTransacciones
    errores,         \* []string of procesarTransacciones, then of main
    i,               \* number of transactions the range loop has consumed
    archivoInventario,  \* inventario_actualizado.txt
    archivoReporte,     \* productos_bajo_stock.txt
    archivoLog,         \* errores.log
    \* ---- history variables (observers, never read by the program) ----
    historial,       \* historial[k+1] = productos after k transactions
    erroresHist,     \* erroresHist[k+1] = errores after k transactions
    origen,          \* origen[k] = position of the transaction behind errores[k]
    tocados,         \* positions p for which productos[p] was read or written
    bitacora         \* steps main has completed, each with its outcome

vars == << pc, productos, transacciones, index, errores, i,
           archivoInventario, archivoReporte, archivoLog,
           historial, erroresHist, origen, tocados, bitacora >>

(***************************************************************************)
(* Bounds                                                                  *)
(***************************************************************************)
\* Go's int is 64 bits wide on the usual targets; the model keeps the
\* two's-complement wrap-around and scales the width down.
IntBits == 5
MaxProductos == 2
MaxTrans == 2
MaxLineas == 3

(***************************************************************************)
(* int arithmetic                                                          *)
(***************************************************************************)
MaxInt == (2 ^ (IntBits - 1)) - 1
MinInt == 0 - (2 ^ (IntBits - 1))
Enteros == MinInt..MaxInt

\* the value an int holds after an operation whose exact result is n
Wrap(n) == ((n - MinInt + (2 ^ IntBits)) % (2 ^ IntBits)) + MinInt

IntAdd(a, b) == Wrap(a + b)
IntSub(a, b) == Wrap(a - b)

(***************************************************************************)
(* Data                                                                    *)
(***************************************************************************)
\* Precio is a float64 the engine never computes with; it is kept in hundredths.
Producto(id, nombre, categoria, precio, stock) ==
    [ID |-> id, Nombre |-> nombre, Categoria |-> categoria,
     Precio |-> precio, Stock |-> stock]

Transaccion(tipo, id, cantidad, fecha) ==
    [Tipo |-> tipo, IDProducto |-> id, Cantidad |-> cantidad, Fecha |-> fecha]

SeqHasta(S, n) == UNION { [1..k -> S] : k \in 0..n }

IDs == {"P1", "P2"}
Tipos == {"VENTA", "COMPRA", "DEVOLUCION", "AJUSTE"}
Fechas == {"2025-01-01"}

\* P1 starts at 5 or at the largest int, P2 at 2
ProductosPosibles ==
    { Producto("P1", "Teclado", "Perifericos", 1999, s) : s \in {5, MaxInt} }
        \cup { Producto("P2", "Raton", "Perifericos", 950, 2) }

\* sales of more than, exactly and less than the stock, and of a negative
\* quantity; additions of a negative, a zero and a positive quantity; an
\* unknown kind; every one of them on an ID the catalog may or may not hold
TransaccionesPosibles ==
    [Tipo : {"VENTA"}, IDProducto : {"P1"}, Cantidad : {0 - 1, 3, 5}, Fecha : Fechas]
      \cup [Tipo : {"COMPRA", "DEVOLUCION"}, IDProducto : {"P1"},
            Cantidad : {0 - 1, 0, 3}, Fecha : Fechas]
      \cup [Tipo : {"AJUSTE"}, IDProducto : {"P1"}, Cantidad : {3}, Fecha : Fechas]
      \cup [Tipo : {"VENTA", "COMPRA"}, IDProducto : {"P2"}, Cantidad : {3},
            Fecha : Fechas]

Catalogos == SeqHasta(ProductosPosibles, MaxProductos)
Lotes == SeqHasta(TransaccionesPosibles, MaxTrans)

(***************************************************************************)
(* procesarTransacciones                                                   *)
(***************************************************************************)
\* The three fmt.Sprintf messages, kept as the format chosen and its
\* arguments; an argument the format does not print is "-" or 0.
MsgNoEncontrado(t) ==
    [formato |-> "Producto no encontrado", IDProducto |-> t.IDProducto,
     Tipo |-> t.Tipo, Stock |-> 0, Cantidad |-> 0, Fecha |-> t.Fecha]

MsgStockInsuficiente(p, t) ==
    [formato |-> "Stock insuficiente", IDProducto |-> p.ID,
     Tipo |-> "-", Stock |-> p.Stock, Cantidad |-> t.Cantidad, Fecha |-> t.Fecha]

MsgTipoDesconocido(t) ==
    [formato |-> "Tipo desconocido", IDProducto |-> t.IDProducto,
     Tipo |-> t.Tipo, Stock |-> 0, Cantidad |-> 0, Fecha |-> t.Fecha]

\* for i, p := range productos { index[p.ID] = i }, from position k on
RECURSIVE indexLoopPrimero(_, _, _)
indexLoopPrimero(prods, k, idx) ==
    IF k > Len(prods) THEN idx
    ELSE indexLoopPrimero(prods, k + 1,
            IF prods[k].ID \in DOMAIN idx THEN idx
            ELSE [id \in (DOMAIN idx) \cup {prods[k].ID} |->
                    IF id = prods[k].ID THEN k ELSE idx[id]])

RECURSIVE indexLoop(_, _, _)
indexLoop(prods, k, idx) ==
    IF k > Len(prods) THEN idx
    ELSE indexLoop(prods, k + 1,
            [id \in (DOMAIN idx) \cup {prods[k].ID} |->
                IF id = prods[k].ID THEN k ELSE idx[id]])

\* the result of one iteration of the range loop over transacciones
Resultado(prods, errs, acc) == [productos |-> prods, errores |-> errs, acc |-> acc]

noExistePrepend(prods, errs, t) ==
    Resultado(prods, << MsgNoEncontrado(t) >> \o errs, {})

\* if !existe { errores = append(...); continue }
noExiste(prods, errs, t) ==
    Resultado(prods, Append(errs, MsgNoEncontrado(t)), {})

casoVENTAMenorIgual(prods, pos, errs, t) ==
    IF prods[pos].Stock <= t.Cantidad
    THEN Resultado(prods, Append(errs, MsgStockInsuficiente(prods[pos], t)), {pos})
    ELSE Resultado([prods EXCEPT ![pos].Stock = IntSub(@, t.Cantidad)], errs, {pos})

\* case "VENTA"
casoVENTA(prods, pos, errs, t) ==
    IF prods[pos].Stock < t.Cantidad
    THEN Resultado(prods, Append(errs, MsgStockInsuficiente(prods[pos], t)), {pos})
    ELSE Resultado([prods EXCEPT ![pos].Stock = IntSub(@, t.Cantidad)], errs, {pos})

casoCOMPRANuevoProducto(prods, pos, errs, t) ==
    Resultado([prods EXCEPT ![pos] =
                  Producto(@.ID, "", "", 0, IntAdd(@.Stock, t.Cantidad))], errs, {pos})

\* case "COMPRA"
casoCOMPRA(prods, pos, errs, t) ==
    Resultado([prods EXCEPT ![pos].Stock = IntAdd(@, t.Cantidad)], errs, {pos})

casoDEVOLUCIONResta(prods, pos, errs, t) ==
    Resultado([prods EXCEPT ![pos].Stock = IntSub(@, t.Cantidad)], errs, {pos})

\* case "DEVOLUCION"
casoDEVOLUCION(prods, pos, errs, t) ==
    Resultado([prods EXCEPT ![pos].Stock = IntAdd(@, t.Cantidad)], errs, {pos})

casoDefaultSilencioso(prods, pos, errs, t) ==
    Resultado(prods, errs, {})

casoDefaultSuma(prods, pos, errs, t) ==
    Resultado([prods EXCEPT ![pos].Stock = IntAdd(@, t.Cantidad)],
              Append(errs, MsgTipoDesconocido(t)), {pos})

\* default:
casoDefault(prods, pos, errs, t) ==
    Resultado(prods, Append(errs, MsgTipoDesconocido(t)), {})

\* switch t.Tipo on productos[pos]
switchTipo(prods, pos, errs, t) ==
    CASE t.Tipo = "VENTA" -> casoVENTA(prods, pos, errs, t)
      [] t.Tipo = "COMPRA" -> casoCOMPRA(prods, pos, errs, t)
      [] t.Tipo = "DEVOLUCION" -> casoDEVOLUCION(prods, pos, errs, t)
      [] OTHER -> casoDefault(prods, pos, errs, t)

iteracionSinContinue(prods, idx, errs, t) ==
    IF t.IDProducto \notin DOMAIN idx
    THEN IF Len(prods) = 0
         THEN noExiste(prods, errs, t)
         ELSE switchTipo(prods, 1, Append(errs, MsgNoEncontrado(t)), t)
    ELSE switchTipo(prods, idx[t.IDProducto], errs, t)

\* the body of: for _, t := range transacciones
iteracion(prods, idx, errs, t) ==
    IF t.IDProducto \notin DOMAIN idx
    THEN noExiste(prods, errs, t)
    ELSE switchTipo(prods, idx[t.IDProducto], errs, t)

(***************************************************************************)
(* Readers: leerInventario, leerTransacciones                              *)
(***************************************************************************)
\* An input file: whether os.Open succeeds, and its CSV records, each a
\* sequence of text fields (the header line is a record like any other).
CabeceraInventario == << "ID", "Nombre", "Categoria", "Precio", "Stock" >>
CabeceraTransacciones == << "Tipo", "IDProducto", "Cantidad", "Fecha" >>

RegistrosInventario ==
    { CabeceraInventario,
      << "P1", "Teclado", "Perifericos", "19.99", "5" >>,
      << "P2", "Raton", "Perifericos", "9.50", "3" >>,
      << "P1", "Teclado", "Perifericos", "abc", "5" >>,
      << "P2", "Raton", "Perifericos", "9.50", "abc" >>,
      << "P1", "Teclado", "Perifericos", "19.99" >> }

RegistrosTransacciones ==
    { CabeceraTransacciones,
      << "VENTA", "P1", "3", "2025-01-01" >>,
      << "COMPRA", "P1", "-1", "2025-01-01" >>,
      << "AJUSTE", "P2", "5", "2025-01-01" >>,
      << "VENTA", "P1", "abc", "2025-01-01" >>,
      << "VENTA", "P1", "3" >> }

ArchivosInventario ==
    [abre : BOOLEAN, registros : SeqHasta(RegistrosInventario, MaxLineas)]
ArchivosTransacciones ==
    [abre : BOOLEAN, registros : SeqHasta(RegistrosTransacciones, MaxLineas)]

\* strconv.Atoi on the texts of the input sets: the value, or an error
Atoi(s) ==
    CASE s = "5" -> [err |-> FALSE, val |-> 5]
      [] s = "3" -> [err |-> FALSE, val |-> 3]
      [] s = "0" -> [err |-> FALSE, val |-> 0]
      [] s = "-1" -> [err |-> FALSE, val |-> 0 - 1]
      [] OTHER -> [err |-> TRUE, val |-> 0]

\* strconv.ParseFloat(s, 64) on the texts of the input sets, in hundredths
ParseFloat(s) ==
    CASE s = "19.99" -> [err |-> FALSE, val |-> 1999]
      [] s = "9.50" -> [err |-> FALSE, val |-> 950]
      [] s = "5" -> [err |-> FALSE, val |-> 500]
      [] s = "3" -> [err |-> FALSE, val |-> 300]
      [] s = "0" -> [err |-> FALSE, val |-> 0]
      [] s = "-1" -> [err |-> FALSE, val |-> 0 - 100]
      [] OTHER -> [err |-> TRUE, val |-> 0]

\* csv.Reader.ReadAll with the default FieldsPerRecord = 0: every record
\* must have as many fields as the first one, else ErrFieldCount.
ReadAll(registros) ==
    IF \E k \in 1..Len(registros) : Len(registros[k]) # Len(registros[1])
    THEN [err |-> TRUE, records |-> << >>]
    ELSE [err |-> FALSE, records |-> registros]

\* for i, rec := range records of leerInventario, from record k on
RECURSIVE leerInventarioLoop(_, _, _)
leerInventarioLoop(records, k, prods) ==
    IF k > Len(records) THEN [err |-> FALSE, val |-> prods]
    ELSE IF k = 1 THEN leerInventarioLoop(records, k + 1, prods)
    ELSE IF Len(records[k]) < 5 THEN leerInventarioLoop(records, k + 1, prods)
    ELSE IF ParseFloat(records[k][4]).err THEN [err |-> TRUE, val |-> << >>]
    ELSE IF Atoi(records[k][5]).err THEN [err |-> TRUE, val |-> << >>]
    ELSE leerInventarioLoop(records, k + 1,
            Append(prods, Producto(records[k][1], records[k][2], records[k][3],
                                   ParseFloat(records[k][4]).val,
                                   Atoi(records[k][5]).val)))

leerInventario(f) ==
    IF ~f.abre THEN [err |-> TRUE, val |-> << >>]
    ELSE IF ReadAll(f.registros).err THEN [err |-> TRUE, val |-> << >>]
    ELSE leerInventarioLoop(ReadAll(f.registros).records, 1, << >>)

\* for i, rec := range records of leerTransacciones, from record k on
RECURSIVE leerTransaccionesLoop(_, _, _)
leerTransaccionesLoop(records, k, trans) ==
    IF k > Len(records) THEN [err |-> FALSE, val |-> trans]
    ELSE IF k = 1 THEN leerTransaccionesLoop(records, k + 1, trans)
    ELSE IF Len(records[k]) < 4 THEN leerTransaccionesLoop(records, k + 1, trans)
    ELSE IF Atoi(records[k][3]).err THEN [err |-> TRUE, val |-> << >>]
    ELSE leerTransaccionesLoop(records, k + 1,
            Append(trans, Transaccion(records[k][1], records[k][2],
                                      Atoi(records[k][3]).val, records[k][4])))

leerTransacciones(f) ==
    IF ~f.abre THEN [err |-> TRUE, val |-> << >>]
    ELSE IF ReadAll(f.registros).err THEN [err |-> TRUE, val |-> << >>]
    ELSE leerTransaccionesLoop(ReadAll(f.registros).records, 1, << >>)

(***************************************************************************)
(* Writers                                                                 *)
(***************************************************************************)
LimiteBajoStock == 10

Ausente == [existe |-> FALSE, lineas |-> << >>]
Archivo(lineas) == [existe |-> TRUE, lineas |-> lineas]

\* the rows escribirInventario writes after the header, one per product:
\* ID, Nombre, Categoria, the price as "%.2f" prints it (units and two
\* decimals) and the stock as strconv.Itoa prints it (sign and digits)
FilasInventario(prods) ==
    [k \in 1..Len(prods) |->
        [ID |-> prods[k].ID, Nombre |-> prods[k].Nombre,
         Categoria |-> prods[k].Categoria,
         Precio |-> [unidades |-> prods[k].Precio \div 100,
                     decimales |-> prods[k].Precio % 100],
         Stock |-> [negativo |-> prods[k].Stock < 0,
                    digitos |-> IF prods[k].Stock < 0 THEN 0 - prods[k].Stock
                                ELSE prods[k].Stock]]]

\* the products generarReporteBajoStock lists: Stock < limite
BajoStock(prods, limite) == SelectSeq(prods, LAMBDA p : p.Stock < limite)

(***************************************************************************)
(* Actions                                                                 *)
(***************************************************************************)
Hecho(paso, ok) == Append(bitacora, [paso |-> paso, ok |-> ok])

archivosIguales == UNCHANGED << archivoInventario, archivoReporte, archivoLog >>
motorIgual == UNCHANGED << index, errores, i, historial, erroresHist, origen, tocados >>

\* main, step 1: productos, err := leerInventario(invFile)
main_leerInventario ==
    /\ pc = "leerInventario"
    /\ \E f \in ArchivosInventario :
          LET r == leerInventario(f) IN
             IF r.err
             THEN /\ pc' = "abortado"
                  /\ bitacora' = Hecho("leerInventario", FALSE)
                  /\ UNCHANGED productos
             ELSE /\ pc' = "leerTransacciones"
                  /\ bitacora' = Hecho("leerInventario", TRUE)
                  /\ productos' = r.val
    /\ UNCHANGED transacciones
    /\ archivosIguales /\ motorIgual

main_leerTransaccionesSinReturn ==
    /\ pc = "leerTransacciones"
    /\ \E f \in ArchivosTransacciones :
          LET r == leerTransacciones(f) IN
             /\ pc' = "procesar"
             /\ bitacora' = Hecho("leerTransacciones", ~r.err)
             /\ transacciones' = r.val
    /\ UNCHANGED productos
    /\ archivosIguales /\ motorIgual

\* main, step 2: transacciones, err := leerTransacciones(transFile)
main_leerTransacciones ==
    /\ pc = "leerTransacciones"
    /\ \E f \in ArchivosTransacciones :
          LET r == leerTransacciones(f) IN
             IF r.err
             THEN /\ pc' = "abortado"
                  /\ bitacora' = Hecho("leerTransacciones", FALSE)
                  /\ UNCHANGED transacciones
             ELSE /\ pc' = "procesar"
                  /\ bitacora' = Hecho("leerTransacciones", TRUE)
                  /\ transacciones' = r.val
    /\ UNCHANGED productos
    /\ archivosIguales /\ motorIgual

\* procesarTransacciones, entry: var errores; the index loop
procesarTransacciones_index ==
    /\ pc = "procesar"
    /\ pc' = "bucle"
    /\ errores' = << >>
    /\ index' = indexLoop(productos, 1, << >>)
    /\ i' = 0
    /\ historial' = << productos >>
    /\ erroresHist' = << << >> >>
    /\ origen' = << >>
    /\ tocados' = {}
    /\ UNCHANGED << productos, transacciones, bitacora >>
    /\ archivosIguales

\* procesarTransacciones, one iteration of the loop over transacciones
procesarTransacciones_iteracion ==
    /\ pc = "bucle"
    /\ i < Len(transacciones)
    /\ LET r == iteracion(productos, index, errores, transacciones[i + 1]) IN
          /\ productos' = r.productos
          /\ errores' = r.errores
          /\ historial' = Append(historial, r.productos)
          /\ erroresHist' = Append(erroresHist, r.errores)
          /\ origen' = origen \o [k \in 1..(Len(r.errores) - Len(errores)) |-> i + 1]
          /\ tocados' = tocados \cup r.acc
    /\ i' = i + 1
    /\ UNCHANGED << pc, transacciones, index, bitacora >>
    /\ archivosIguales

\* procesarTransacciones, return errores (main, step 3)
procesarTransacciones_return ==
    /\ pc = "bucle"
    /\ i = Len(transacciones)
    /\ pc' = "escribirInventario"
    /\ bitacora' = Hecho("procesarTransacciones", TRUE)
    /\ UNCHANGED << productos, transacciones >>
    /\ archivosIguales /\ motorIgual

\* main, step 4: escribirInventario(productos, "inventario_actualizado.txt").
\* os.Create may fail (no file); a Write may fail after any number of rows.
main_escribirInventario ==
    /\ pc = "escribirInventario"
    /\ \/ /\ archivoInventario' = Archivo(FilasInventario(productos))
          /\ pc' = "generarReporteBajoStock"
          /\ bitacora' = Hecho("escribirInventario", TRUE)
       \/ /\ UNCHANGED archivoInventario
          /\ pc' = "abortado"
          /\ bitacora' = Hecho("escribirInventario", FALSE)
       \/ /\ \E n \in 0..Len(productos) :
                archivoInventario' = Archivo(SubSeq(FilasInventario(productos), 1, n))
          /\ pc' = "abortado"
          /\ bitacora' = Hecho("escribirInventario", FALSE)
    /\ UNCHANGED << productos, transacciones, archivoReporte, archivoLog >>
    /\ motorIgual

\* main, step 5: generarReporteBajoStock(productos, 10)
main_generarReporteBajoStock ==
    /\ pc = "generarReporteBajoStock"
    /\ \/ /\ archivoReporte' = Archivo(BajoStock(productos, LimiteBajoStock))
          /\ pc' = "escribirLog"
          /\ bitacora' = Hecho("generarReporteBajoStock", TRUE)
       \/ /\ UNCHANGED archivoReporte
          /\ pc' = "abortado"
          /\ bitacora' = Hecho("generarReporteBajoStock", FALSE)
    /\ UNCHANGED << productos, transacciones, archivoInventario, archivoLog >>
    /\ motorIgual

\* main, step 6: escribirLog(errores, "errores.log")
main_escribirLog ==
    /\ pc = "escribirLog"
    /\ \/ /\ archivoLog' = Archivo(errores)
          /\ pc' = "fin"
          /\ bitacora' = Hecho("escribirLog", TRUE)
       \/ /\ UNCHANGED archivoLog
          /\ pc' = "abortado"
          /\ bitacora' = Hecho("escribirLog", FALSE)
    /\ UNCHANGED << productos, transacciones, archivoInventario, archivoReporte >>
    /\ motorIgual

(***************************************************************************)
(* Specifications                                                          *)
(***************************************************************************)
SinMotor ==
    /\ index = << >>
    /\ errores = << >>
    /\ i = 0
    /\ historial = << >>
    /\ erroresHist = << >>
    /\ origen = << >>
    /\ tocados = {}

SinArchivos ==
    /\ archivoInventario = Ausente
    /\ archivoReporte = Ausente
    /\ archivoLog = Ausente

\* procesarTransacciones called on any catalog and any transaction slice
Init ==
    /\ pc = "procesar"
    /\ productos \in Catalogos
    /\ transacciones \in Lotes
    /\ bitacora = << [paso |-> "leerInventario", ok |-> TRUE],
                     [paso |-> "leerTransacciones", ok |-> TRUE] >>
    /\ SinMotor /\ SinArchivos

Next ==
    \/ procesarTransacciones_index
    \/ procesarTransacciones_iteracion
    \/ procesarTransacciones_return

Spec == Init /\ [][Next]_vars

\* main() from its first statement
InitMain ==
    /\ pc = "leerInventario"
    /\ productos = << >>
    /\ transacciones = << >>
    /\ bitacora = << >>
    /\ SinMotor /\ SinArchivos

NextMain ==
    \/ main_leerInventario
    \/ main_leerTransacciones
    \/ procesarTransacciones_index
    \/ procesarTransacciones_iteracion
    \/ procesarTransacciones_return
    \/ main_escribirInventario
    \/ main_generarReporteBajoStock
    \/ main_escribirLog

SpecMain == InitMain /\ [][NextMain]_vars

(***************************************************************************)
(* Vocabulary of the properties, stated on the catalog itself (not on the  *)
(* index the code builds)                                                  *)
(***************************************************************************)
Pasos == IF historial = << >> THEN {} ELSE 1..(Len(historial) - 1)

PosicionesDe(cat, id) == { p \in 1..Len(cat) : cat[p].ID = id }
EnCatalogo(cat, id) == PosicionesDe(cat, id) # {}
\* the product a transaction on id targets: the one with that ID, the last
\* of them when the catalog repeats the ID
Objetivo(cat, id) ==
    CHOOSE p \in PosicionesDe(cat, id) : \A q \in PosicionesDe(cat, id) : q <= p

TiposConocidos == {"VENTA", "COMPRA", "DEVOLUCION"}

VentaSinStock(cat, t) ==
    /\ EnCatalogo(cat, t.IDProducto)
    /\ t.Tipo = "VENTA"
    /\ cat[Objetivo(cat, t.IDProducto)].Stock < t.Cantidad

TipoNoReconocido(cat, t) ==
    /\ EnCatalogo(cat, t.IDProducto)
    /\ t.Tipo \notin TiposConocidos

CondicionFallo(cat, t) ==
    \/ ~EnCatalogo(cat, t.IDProducto)
    \/ VentaSinStock(cat, t)
    \/ TipoNoReconocido(cat, t)

Fallidas == { k \in Pasos : CondicionFallo(historial[k], transacciones[k]) }
Kesima(F, k) == CHOOSE j \in F : Cardinality({ x \in F : x < j }) = k - 1

EsPrefijo(a, b) == Len(a) <= Len(b) /\ SubSeq(b, 1, Len(a)) = a

\* x is the int that holds the sum s + q
EsSumaInt(x, s, q) ==
    /\ x \in Enteros
    /\ (x - (s + q) + 4 * (2 ^ IntBits)) % (2 ^ IntBits) = 0
    /\ (s + q) \in Enteros => x = s + q

(***************************************************************************)
(* C1. A VENTA on an existing product whose quantity exceeds the current   *)
(* stock is refused (stock unchanged, exactly one error record appended),  *)
(* and every VENTA that is applied leaves the target's stock >= 0.         *)
(***************************************************************************)
C1_VentaNuncaNegativa ==
    \A k \in Pasos :
        LET t == transacciones[k]
            antes == historial[k]
            despues == historial[k + 1]
        IN  (t.Tipo = "VENTA" /\ EnCatalogo(antes, t.IDProducto)) =>
              LET p == Objetivo(antes, t.IDProducto) IN
                /\ t.Cantidad > antes[p].Stock =>
                      /\ despues[p].Stock = antes[p].Stock
                      /\ Len(erroresHist[k + 1]) = Len(erroresHist[k]) + 1
                /\ Len(erroresHist[k + 1]) = Len(erroresHist[k]) =>
                      despues[p].Stock >= 0

\* the part of C1 about refusal alone
C1_VentaRechazada ==
    \A k \in Pasos :
        LET t == transacciones[k]
            antes == historial[k]
        IN  VentaSinStock(antes, t) =>
              /\ historial[k + 1] = antes
              /\ Len(erroresHist[k + 1]) = Len(erroresHist[k]) + 1

(***************************************************************************)
(* C2. Each transaction appends at most one error record, a successfully   *)
(* applied one appends none, and the length of the error list equals the   *)
(* number of transactions that met a failure condition (id not in the      *)
(* catalog; VENTA with stock < quantity; unknown kind on an existing       *)
(* product) when they were processed.                                      *)
(***************************************************************************)
C2_UnErrorPorFallo ==
    /\ \A k \in Pasos :
          Len(erroresHist[k + 1]) - Len(erroresHist[k]) =
             IF CondicionFallo(historial[k], transacciones[k]) THEN 1 ELSE 0
    /\ historial # << >> => Len(errores) = Cardinality(Fallidas)

C2_Testigo ==
    /\ pc = "escribirInventario"
    /\ Len(transacciones) = 2
    /\ Cardinality(Fallidas) = 1
    /\ Len(errores) = 1

(***************************************************************************)
(* C3. Error records keep transaction order and are append-only: the k-th  *)
(* entry describes the k-th failing transaction, and an entry once         *)
(* appended is never modified, moved or removed by later transactions.     *)
(***************************************************************************)
Describe(e, cat, t) ==
    /\ e.IDProducto = t.IDProducto
    /\ e.Fecha = t.Fecha
    /\ e.formato =
         IF ~EnCatalogo(cat, t.IDProducto) THEN "Producto no encontrado"
         ELSE IF t.Tipo = "VENTA" THEN "Stock insuficiente"
         ELSE "Tipo desconocido"

C3_OrdenErrores ==
    /\ \A k \in Pasos : EsPrefijo(erroresHist[k], erroresHist[k + 1])
    /\ historial # << >> =>
          /\ Len(origen) = Len(errores)
          /\ Len(errores) = Cardinality(Fallidas)
          /\ \A k \in 1..Len(errores) :
                /\ k <= Len(origen) /\ k <= Cardinality(Fallidas)
                /\ origen[k] = Kesima(Fallidas, k)
                /\ Describe(errores[k], historial[origen[k]], transacciones[origen[k]])

C3_Testigo ==
    /\ pc = "escribirInventario"
    /\ Len(errores) = 2
    /\ errores[1].formato # errores[2].formato
    /\ origen = << 1, 2 >>

(***************************************************************************)
(* C4. Reconciliation changes only stock quantities: the catalog keeps its *)
(* length and, at each position, ID, Nombre, Categoria and Precio; a       *)
(* single transaction changes the Stock of at most one product, one whose  *)
(* ID is the transaction's IDProducto.                                     *)
(***************************************************************************)
MismoProductoSalvoStock(a, b) ==
    /\ a.ID = b.ID
    /\ a.Nombre = b.Nombre
    /\ a.Categoria = b.Categoria
    /\ a.Precio = b.Precio

C4_SoloStock ==
    /\ historial # << >> =>
          /\ Len(productos) = Len(historial[1])
          /\ \A p \in 1..Len(productos) :
                MismoProductoSalvoStock(productos[p], historial[1][p])
    /\ \A k \in Pasos :
          LET cambiados == { p \in 1..Len(historial[k]) :
                               historial[k + 1][p].Stock # historial[k][p].Stock }
          IN  /\ Len(historial[k + 1]) = Len(historial[k])
              /\ Cardinality(cambiados) <= 1
              /\ \A p \in cambiados : historial[k][p].ID = transacciones[k].IDProducto

C4_Testigo ==
    /\ pc = "escribirInventario"
    /\ Len(productos) = 2
    /\ productos[1].ID # productos[2].ID
    /\ productos[1].Stock # historial[1][1].Stock
    /\ productos[2].Stock = historial[1][2].Stock

(***************************************************************************)
(* C5. A transaction whose IDProducto is no product's ID appends exactly   *)
(* one error record, the not-found one, whatever its kind (an unknown kind *)
(* included), leaves every product unchanged, and the loop goes on to the  *)
(* next transaction.                                                       *)
(***************************************************************************)
C5_NoEncontrado ==
    /\ \A k \in Pasos :
          LET t == transacciones[k] IN
             ~EnCatalogo(historial[k], t.IDProducto) =>
                /\ historial[k + 1] = historial[k]
                /\ Len(erroresHist[k + 1]) = Len(erroresHist[k]) + 1
                /\ EsPrefijo(erroresHist[k], erroresHist[k + 1])
                /\ erroresHist[k + 1][Len(erroresHist[k + 1])] = MsgNoEncontrado(t)
    /\ (historial # << >> /\ i < Len(transacciones)) => pc = "bucle"

C5_Testigo ==
    /\ historial # << >>
    /\ i = 2
    /\ Len(productos) > 0
    /\ ~EnCatalogo(historial[1], transacciones[1].IDProducto)
    /\ transacciones[1].Tipo = "AJUSTE"
    /\ Len(erroresHist[2]) = 1
    /\ EnCatalogo(historial[1], transacciones[2].IDProducto)
    /\ historial[3] # historial[2]

(***************************************************************************)
(* C6. A transaction on an existing product whose kind is none of VENTA,   *)
(* COMPRA, DEVOLUCION appends exactly one error record and leaves the      *)
(* stock of every product, the target included, unchanged.                 *)
(***************************************************************************)
C6_TipoDesconocido ==
    \A k \in Pasos :
        LET t == transacciones[k] IN
           TipoNoReconocido(historial[k], t) =>
              /\ \A p \in 1..Len(historial[k]) :
                    historial[k + 1][p].Stock = historial[k][p].Stock
              /\ historial[k + 1] = historial[k]
              /\ Len(erroresHist[k + 1]) = Len(erroresHist[k]) + 1
              /\ EsPrefijo(erroresHist[k], erroresHist[k + 1])

C6_Testigo ==
    /\ historial # << >>
    /\ i >= 1
    /\ transacciones[1].Tipo = "AJUSTE"
    /\ EnCatalogo(historial[1], transacciones[1].IDProducto)
    /\ Len(erroresHist[2]) = 1
    /\ erroresHist[2][1].formato = "Tipo desconocido"

(***************************************************************************)
(* C7. COMPRA and DEVOLUCION on an existing product always succeed,        *)
(* whatever the sign of the quantity: the target's stock becomes s + q (as *)
(* an int: the exact sum whenever an int can hold it), no error record is  *)
(* appended, and a DEVOLUCION has the effect of the COMPRA with the same   *)
(* target and quantity.                                                    *)
(***************************************************************************)
Gemela(t) ==
    [t EXCEPT !.Tipo = IF t.Tipo = "COMPRA" THEN "DEVOLUCION" ELSE "COMPRA"]

C7_CompraDevolucionSuman ==
    \A k \in Pasos :
        LET t == transacciones[k]
            antes == historial[k]
            despues == historial[k + 1]
        IN  (t.Tipo \in {"COMPRA", "DEVOLUCION"} /\ EnCatalogo(antes, t.IDProducto)) =>
              LET p == Objetivo(antes, t.IDProducto) IN
                /\ EsSumaInt(despues[p].Stock, antes[p].Stock, t.Cantidad)
                /\ erroresHist[k + 1] = erroresHist[k]
                /\ despues = iteracion(antes, index, erroresHist[k], Gemela(t)).productos
                /\ erroresHist[k + 1] =
                      iteracion(antes, index, erroresHist[k], Gemela(t)).errores

C7_Testigo ==
    /\ historial # << >>
    /\ i = 2
    /\ transacciones[1].Tipo = "DEVOLUCION"
    /\ transacciones[1].Cantidad < 0
    /\ transacciones[2].Tipo = "COMPRA"
    /\ transacciones[2].Cantidad > 0
    /\ transacciones[2].IDProducto = transacciones[1].IDProducto
    /\ EnCatalogo(historial[1], transacciones[1].IDProducto)
    /\ LET p == Objetivo(historial[1], transacciones[1].IDProducto) IN
          /\ historial[2][p].Stock = historial[1][p].Stock - 1
          /\ historial[3][p].Stock = historial[2][p].Stock + transacciones[2].Cantidad
    /\ errores = << >>

(***************************************************************************)
(* C8. Transactions are applied in input order, each on the stock left by  *)
(* the earlier ones: with P at stock 5, [VENTA P 5, COMPRA P 3] passes     *)
(* through 0 and ends at 3 without errors, [COMPRA P 3, VENTA P 5] passes  *)
(* through 8 and ends at 3 without errors; a COMPRA right after a refused  *)
(* VENTA is added to the stock the VENTA left untouched.                   *)
(***************************************************************************)
EsTrans(t, tipo, id, q) == t.Tipo = tipo /\ t.IDProducto = id /\ t.Cantidad = q

C8_OrdenImporta ==
    /\ \A id \in IDs :
          (/\ historial # << >>
           /\ Len(historial) >= 3
           /\ EnCatalogo(historial[1], id)
           /\ historial[1][Objetivo(historial[1], id)].Stock = 5) =>
             LET p == Objetivo(historial[1], id) IN
               /\ (EsTrans(transacciones[1], "VENTA", id, 5)
                     /\ EsTrans(transacciones[2], "COMPRA", id, 3)) =>
                        /\ historial[2][p].Stock = 0
                        /\ historial[3][p].Stock = 3
                        /\ erroresHist[3] = << >>
               /\ (EsTrans(transacciones[1], "COMPRA", id, 3)
                     /\ EsTrans(transacciones[2], "VENTA", id, 5)) =>
                        /\ historial[2][p].Stock = 8
                        /\ historial[3][p].Stock = 3
                        /\ erroresHist[3] = << >>
    /\ \A k \in Pasos :
          (/\ k >= 2
           /\ VentaSinStock(historial[k - 1], transacciones[k - 1])
           /\ transacciones[k].Tipo = "COMPRA"
           /\ transacciones[k].IDProducto = transacciones[k - 1].IDProducto) =>
             LET p == Objetivo(historial[k - 1], transacciones[k].IDProducto) IN
               /\ historial[k][p].Stock = historial[k - 1][p].Stock
               /\ EsSumaInt(historial[k + 1][p].Stock, historial[k - 1][p].Stock,
                            transacciones[k].Cantidad)

C8_Testigo ==
    /\ historial # << >>
    /\ Len(historial) = 3
    /\ Len(historial[1]) = 1
    /\ historial[1][1].Stock = 5
    /\ EsTrans(transacciones[1], "COMPRA", historial[1][1].ID, 3)
    /\ EsTrans(transacciones[2], "VENTA", historial[1][1].ID, 5)
    /\ historial[2][1].Stock = 8
    /\ productos[1].Stock = 3
    /\ errores = << >>

(***************************************************************************)
(* C9. In main, a failure of leerInventario or leerTransacciones ends the  *)
(* run before procesarTransacciones is called: the engine runs and any of  *)
(* the three outputs is written only after both readers returned without   *)
(* error, and the outputs are produced in the order inventory, report,     *)
(* log, each step running only if all the steps before it succeeded.       *)
(***************************************************************************)
OrdenMain ==
    << "leerInventario", "leerTransacciones", "procesarTransacciones",
       "escribirInventario", "generarReporteBajoStock", "escribirLog" >>

PasoOk(paso) == \E k \in 1..Len(bitacora) : bitacora[k].paso = paso /\ bitacora[k].ok

C9_LectoresAntesDelMotor ==
    /\ (\/ pc \in {"bucle", "escribirInventario", "generarReporteBajoStock",
                   "escribirLog", "fin"}
        \/ historial # << >>
        \/ archivoInventario.existe \/ archivoReporte.existe \/ archivoLog.existe) =>
          (PasoOk("leerInventario") /\ PasoOk("leerTransacciones"))
    /\ Len(bitacora) <= Len(OrdenMain)
    /\ \A k \in 1..Len(bitacora) :
          /\ k <= Len(OrdenMain)
          /\ bitacora[k].paso = OrdenMain[k]
          /\ \A j \in 1..(k - 1) : bitacora[j].ok
    /\ archivoInventario.existe => PasoOk("procesarTransacciones")
    /\ archivoReporte.existe => PasoOk("escribirInventario")
    /\ archivoLog.existe => PasoOk("generarReporteBajoStock")
    /\ pc = "procesar" => (PasoOk("leerInventario") /\ PasoOk("leerTransacciones"))

C9_Testigo ==
    /\ pc = "abortado"
    /\ Len(bitacora) = 2
    /\ bitacora[1].ok
    /\ ~bitacora[2].ok
    /\ Len(productos) > 0
    /\ historial = << >>
    /\ ~archivoInventario.existe /\ ~archivoReporte.existe /\ ~archivoLog.existe

(***************************************************************************)
(* C10. When several products share an ID the index is last-seen-wins:     *)
(* every transaction naming that ID is checked against and applied to the  *)
(* product at the highest position with that ID, and the Stock of the      *)
(* earlier products with that ID is never read or changed.                 *)
(***************************************************************************)
Repetidos(cat) ==
    { p \in 1..Len(cat) : \E q \in 1..Len(cat) : q > p /\ cat[q].ID = cat[p].ID }

C10_UltimoGana ==
    historial # << >> =>
       /\ DOMAIN index = { historial[1][p].ID : p \in 1..Len(historial[1]) }
       /\ \A id \in DOMAIN index : index[id] = Objetivo(historial[1], id)
       /\ \A p \in Repetidos(historial[1]) :
             /\ p \notin tocados
             /\ \A k \in 1..Len(historial) : historial[k][p].Stock = historial[1][p].Stock
       /\ \A k \in Pasos :
             LET t == transacciones[k]
                 antes == historial[k]
             IN  (EnCatalogo(antes, t.IDProducto) /\ t.Tipo \in TiposConocidos) =>
                   LET p == Objetivo(antes, t.IDProducto) IN
                     /\ \A q \in 1..Len(antes) :
                           q # p => historial[k + 1][q] = antes[q]
                     /\ historial[k + 1][p].Stock =
                          IF t.Tipo = "VENTA"
                          THEN IF antes[p].Stock < t.Cantidad THEN antes[p].Stock
                               ELSE IntSub(antes[p].Stock, t.Cantidad)
                          ELSE IntAdd(antes[p].Stock, t.Cantidad)
                     /\ Len(erroresHist[k + 1]) - Len(erroresHist[k]) =
                          IF t.Tipo = "VENTA" /\ antes[p].Stock < t.Cantidad
                          THEN 1 ELSE 0

C10_Testigo ==
    /\ pc = "escribirInventario"
    /\ Len(productos) = 2
    /\ productos[1].ID = productos[2].ID
    /\ historial[1][1].Stock = MaxInt
    /\ historial[1][2].Stock = 5
    /\ Len(transacciones) = 2
    /\ EsTrans(transacciones[1], "VENTA", productos[1].ID, 5)
    /\ EsTrans(transacciones[2], "VENTA", productos[1].ID, 3)
    /\ productos[1].Stock = MaxInt
    /\ productos[2].Stock = 0
    /\ Len(errores) = 1
    /\ tocados = {2}

====
